---------------------------- MODULE Spec2Model ----------------------------
(***************************************************************************)
(* Model of app.py, the complete program of flask_rest_api_tutorial.py     *)
(* (lines 247-291): module-level start-up (label table, pretrained model,  *)
(* eval mode, app.run) and the POST /predict handler with the functions it *)
(* calls, transform_image and get_prediction.  Requests are handled        *)
(* concurrently, one statement group of the handler at a time.             *)
(***************************************************************************)
EXTENDS Integers, Sequences, FiniteSets, TLC

\* ---------------------------------------------------------------- bounds
MaxRequests == 2      \* requests served in one run of the process
NumClasses == 3       \* width of the network's output vector (1000 in DenseNet)
MaxPix == 2           \* distinct picture contents: 0..MaxPix

\* ------------------------------------------------------ program constants
ResizeSize == 255     \* transforms.Resize(255)
CropSize == 224       \* transforms.CenterCrop(224)
StatusOK == 200       \* status of a response built by jsonify

\* Normalize's per-channel constants, in thousandths.
NormMean == <<485, 456, 406>>
NormStd == <<229, 224, 225>>

RequestIds == 1..MaxRequests

\* ------------------------------------------------------------ JSON values
\* A JSON value as json.load returns it: a str, a number, or a list of
\* scalars.  s is a scalar's text, items a list's elements.
JStr(s) == [t |-> "string", s |-> s, items |-> <<>>]
JNum(s) == [t |-> "number", s |-> s, items |-> <<>>]
JArr(items) == [t |-> "array", s |-> "", items |-> items]
JNull == [t |-> "null", s |-> "", items |-> <<>>]

\* A JSON document: an object (a dict keyed by strings) or something else.
JObject(members) == [t |-> "object", members |-> members]
JNonObject == [t |-> "array", members |-> <<>>]
\* The name imagenet_class_index before line 257 has bound it.
Unbound == [t |-> "unbound", members |-> <<>>]

\* str(int) for a non-negative int: its decimal digits, most significant first.
Digit(d) == <<"0", "1", "2", "3", "4", "5", "6", "7", "8", "9">>[d + 1]

RECURSIVE Str(_)
Str(n) == IF n < 10 THEN Digit(n) ELSE Str(n \div 10) \o Digit(n % 10)

\* ------------------------------------------------------------ environment
\* The file imagenet_class_index.json as the process may find it.
MissingFile == [exists |-> FALSE, wellformed |-> FALSE, doc |-> Unbound]
NotJsonFile == [exists |-> TRUE, wellformed |-> FALSE, doc |-> Unbound]
JsonFile(doc) == [exists |-> TRUE, wellformed |-> TRUE, doc |-> doc]

ClassKeys == {Str(i) : i \in 0..(NumClasses - 1)}

\* Every class index has its [identifier, name] pair, as in the ImageNet file.
FullTable == JObject([k \in ClassKeys |-> JArr(<<JStr("n" \o k), JStr("name" \o k)>>)])
\* Entries only at "0" and at "01", which is the str() of no index.
PartialTable ==
    JObject([k \in {"0", "01"} |->
        IF k = "0" THEN JArr(<<JStr("n02124075"), JStr("Egyptian_cat")>>)
        ELSE JArr(<<JStr("n01"), JStr("other")>>)])
\* Valid JSON whose values are not two-element arrays of strings.
OddTable ==
    JObject([k \in {"0", "1", "2"} |->
        CASE k = "0" -> JArr(<<JStr("n0"), JStr("cat"), JStr("extra")>>)
          [] k = "1" -> JNum("7")
          [] OTHER -> JStr("ab")])

LabelFiles ==
    {MissingFile, NotJsonFile, JsonFile(FullTable), JsonFile(PartialTable),
     JsonFile(OddTable), JsonFile(JNonObject)}

\* The pretrained artifact: a set of weights, or one that cannot be fetched.
\* Weights 0 stand for a network that scores every class alike, weights 1 for
\* one that tells pictures apart.
NoArtifact == [available |-> FALSE, weights |-> 0]
Artifacts == {NoArtifact} \cup {[available |-> TRUE, weights |-> w] : w \in {0, 1}}

\* Uploaded bytes, described by what PIL makes of them.
NoBytes == [decodes |-> FALSE, mode |-> "", w |-> 0, h |-> 0, pix |-> 0]
ImageBytes(mode, w, h, pix) == [decodes |-> TRUE, mode |-> mode, w |-> w, h |-> h, pix |-> pix]
Modes == {"L", "RGB", "RGBA"}
Sizes == {<<1, 300>>, <<100, 50>>, <<255, 255>>}
Uploads ==
    {NoBytes}
    \cup {ImageBytes("RGB", sz[1], sz[2], 0) : sz \in Sizes}
    \cup {ImageBytes("RGB", 100, 50, p) : p \in 0..MaxPix}
    \cup {ImageBytes(m, 100, 50, 0) : m \in Modes}


\* ---------------------------------------------------------- transform_image
NoImage == [mode |-> "", w |-> 0, h |-> 0, pix |-> 0]
NoTensor == [shape |-> <<>>, data |-> 0]
Fail(exc) == [raised |-> exc, tensor |-> NoTensor]
Return(tensor) == [raised |-> "", tensor |-> tensor]

\* Image.open(io.BytesIO(image_bytes)): the decoded picture, or no picture at all.
ImageOpen(bytes) ==
    IF bytes.decodes
    THEN [mode |-> bytes.mode, w |-> bytes.w, h |-> bytes.h, pix |-> bytes.pix]
    ELSE NoImage

\* transforms.Resize(size), size an int: the shorter edge becomes size, the
\* longer one int(size * longer / shorter); an image already there is kept.
Resize(img, size) ==
    IF (img.w <= img.h /\ img.w = size) \/ (img.h <= img.w /\ img.h = size) THEN img
    ELSE IF img.w < img.h
         THEN [img EXCEPT !.w = size, !.h = (size * img.h) \div img.w]
         ELSE [img EXCEPT !.h = size, !.w = (size * img.w) \div img.h]

\* transforms.CenterCrop(size): the box (j, i, j + size, i + size) of the picture.
CenterCrop(img, size) == [img EXCEPT !.w = size, !.h = size]

\* transforms.ToTensor(): channels x height x width, one channel per letter of
\* the picture's mode.
ToTensor(img) == [shape |-> <<Len(img.mode), img.h, img.w>>, data |-> img.pix]

\* transforms.Normalize(mean, std): tensor.sub_(mean[:, None, None]).div_(...),
\* an in-place operation, which must leave the tensor's shape as it is.
\* Faulty variant: a Normalize that lets any number of channels through.
NormalizeAnyChannels(t, mean, std) == Return(t)

Normalize(t, mean, std) ==
    LET c == t.shape[1]
        m == Len(mean)
        broadcastable == c = m \/ c = 1 \/ m = 1
        out == IF c >= m THEN c ELSE m
    IN  IF broadcastable /\ out = c /\ Len(std) = m THEN Return(t)
        ELSE Fail("RuntimeError")

\* .unsqueeze(0): a leading dimension of size 1.
Unsqueeze0(t) == [t EXCEPT !.shape = <<1>> \o @]

\* Faulty variant: undecodable bytes are answered with an all-zero tensor
\* instead of the decoder's exception.
transform_image_default(image_bytes) ==
    IF ~image_bytes.decodes THEN Return([shape |-> <<1, 3, CropSize, CropSize>>, data |-> 0])
    ELSE LET n == Normalize(ToTensor(CenterCrop(Resize(ImageOpen(image_bytes), ResizeSize),
                                                CropSize)), NormMean, NormStd)
         IN  IF n.raised # "" THEN n ELSE Return(Unsqueeze0(n.tensor))

transform_image(image_bytes) ==
    IF ~image_bytes.decodes THEN Fail("UnidentifiedImageError")
    ELSE LET image == ImageOpen(image_bytes)
             n == Normalize(ToTensor(CenterCrop(Resize(image, ResizeSize), CropSize)),
                            NormMean, NormStd)
         IN  IF n.raised # "" THEN n ELSE Return(Unsqueeze0(n.tensor))

\* ------------------------------------------------------------- the network
NoModel == [loaded |-> FALSE, weights |-> 0, training |-> FALSE, num_batches_tracked |-> 0]

\* models.densenet121(pretrained=True): a module is built in training mode.
Densenet121(artifact) ==
    [loaded |-> TRUE, weights |-> artifact.weights, training |-> TRUE,
     num_batches_tracked |-> 0]

\* Faulty variant: the module is left in training mode.
EvalSkipped(m) == m

\* model.eval()
Eval(m) == [m EXCEPT !.training = FALSE]

\* One class score.  Weights 0 score every class alike; other weights put the
\* single highest score at class (weights + data) mod NumClasses.
Score(weights, data, i) ==
    IF weights = 0 THEN 0
    ELSE NumClasses - ((i - 1 + (NumClasses - 1) * (weights + data)) % NumClasses)

\* model.forward(tensor): the class scores of the one picture of the batch.
\* The first convolution takes a batch of 3-channel pictures.
ForwardAccepts(t) == Len(t.shape) = 4 /\ t.shape[1] = 1 /\ t.shape[2] = 3

Forward(m, t) == [i \in 1..NumClasses |-> Score(m.weights, t.data, i)]

\* What a forward pass leaves of the module: in training mode the batch
\* normalisation layers count the batch and move their running statistics.
AfterForward(m) ==
    IF m.training THEN [m EXCEPT !.num_batches_tracked = @ + 1] ELSE m

\* outputs.max(1): the index (from 0) of the first highest score.
ArgMax(scores) ==
    (CHOOSE i \in 1..Len(scores) :
        /\ \A j \in 1..Len(scores) : scores[j] <= scores[i]
        /\ \A j \in 1..(i - 1) : scores[j] < scores[i]) - 1

\* ---------------------------------------------------------- the label table
\* Faulty variant: a missing or unparsable file yields an empty table.
JsonLoadOrEmpty(file) ==
    IF file.exists /\ file.wellformed THEN [raised |-> "", doc |-> file.doc]
    ELSE [raised |-> "", doc |-> JObject(<<>>)]

\* json.load(open('imagenet_class_index.json'))
JsonLoad(file) ==
    IF ~file.exists THEN [raised |-> "FileNotFoundError", doc |-> Unbound]
    ELSE IF ~file.wellformed THEN [raised |-> "JSONDecodeError", doc |-> Unbound]
    ELSE [raised |-> "", doc |-> file.doc]

\* Faulty variant: a key that is absent falls back to the entry at "0".
SubscriptOrFirst(table, key) ==
    IF table.t # "object" THEN [raised |-> "TypeError", value |-> JNull]
    ELSE IF key \in DOMAIN table.members
         THEN [raised |-> "", value |-> table.members[key]]
         ELSE [raised |-> "", value |-> table.members["0"]]

\* imagenet_class_index[predicted_idx]
Subscript(table, key) ==
    IF table.t # "object" THEN [raised |-> "TypeError", value |-> JNull]
    ELSE IF key \in DOMAIN table.members
         THEN [raised |-> "", value |-> table.members[key]]
         ELSE [raised |-> "KeyError", value |-> JNull]

\* ------------------------------------------------------------ the handler
\* What iterating a JSON value yields: a list its elements, a str its characters.
PyIter(v) ==
    IF v.t = "array" THEN v.items
    ELSE [i \in 1..Len(v.s) |-> JStr(SubSeq(v.s, i, i))]

NoBody == <<>>

\* Faulty variant: the first two of any longer value are taken.
UnpackLoose(v) ==
    IF Len(PyIter(v)) >= 2
    THEN [raised |-> "", class_id |-> PyIter(v)[1], class_name |-> PyIter(v)[2]]
    ELSE [raised |-> "ValueError", class_id |-> JNull, class_name |-> JNull]

\* class_id, class_name = <value>
Unpack2(v) ==
    IF v.t \notin {"array", "string"}
    THEN [raised |-> "TypeError", class_id |-> JNull, class_name |-> JNull]
    ELSE IF Len(PyIter(v)) # 2
    THEN [raised |-> "ValueError", class_id |-> JNull, class_name |-> JNull]
    ELSE [raised |-> "", class_id |-> PyIter(v)[1], class_name |-> PyIter(v)[2]]

\* Faulty variant: the two values change places.
JsonifySwapped(class_id, class_name) ==
    [status |-> StatusOK,
     body |-> [k \in {"class_id", "class_name"} |->
                  IF k = "class_id" THEN class_name ELSE class_id]]

\* jsonify({'class_id': class_id, 'class_name': class_name})
Jsonify(class_id, class_name) ==
    [status |-> StatusOK,
     body |-> [k \in {"class_id", "class_name"} |->
                  IF k = "class_id" THEN class_id ELSE class_name]]

NoResponse == [status |-> 0, body |-> NoBody]

\* ------------------------------------------------------------------ state
VARIABLES
    pc,                    \* the main program: "L257", "L258", "L259", "L291", "serving", "crashed"
    labelFile,             \* the file imagenet_class_index.json
    artifact,              \* the pretrained weights models.densenet121 would fetch
    imagenet_class_index,  \* the global of line 257
    model,                 \* the global of lines 258-259
    req,                   \* each request's handler: its position and its locals
    bindings,              \* how often each global has been assigned
    started                \* the two globals as they were when app.run() was reached

vars == <<pc, labelFile, artifact, imagenet_class_index, model, req, bindings, started>>

\* The four steps of a request, in the handler's order.
HandlerSteps == <<"extract", "transform", "predict", "resolve">>

IdleRequest ==
    [pc |-> "idle", method |-> "", hasFile |-> FALSE, upload |-> NoBytes,
     img_bytes |-> NoBytes, tensor |-> NoTensor, y_hat |-> 0, predicted_idx |-> "",
     label |-> JNull, response |-> NoResponse, raised |-> "", steps |-> <<>>]

Init ==
    /\ pc = "L257"
    /\ labelFile \in LabelFiles
    /\ artifact \in Artifacts
    /\ imagenet_class_index = Unbound
    /\ model = NoModel
    /\ req = [r \in RequestIds |-> IdleRequest]
    /\ bindings = [labels |-> 0, model |-> 0]
    /\ started = [labels |-> Unbound, model |-> NoModel]

\* An exception out of a module-level statement ends the process.
Crash == pc' = "crashed"

\* line 257: imagenet_class_index = json.load(open('imagenet_class_index.json'))
LoadLabels ==
    /\ pc = "L257"
    /\ LET r == JsonLoad(labelFile)
       IN  IF r.raised # ""
           THEN Crash /\ UNCHANGED <<imagenet_class_index, bindings>>
           ELSE /\ imagenet_class_index' = r.doc
                /\ bindings' = [bindings EXCEPT !.labels = @ + 1]
                /\ pc' = "L258"
    /\ UNCHANGED <<labelFile, artifact, model, req, started>>

\* line 258: model = models.densenet121(pretrained=True)
LoadModel ==
    /\ pc = "L258"
    /\ IF ~artifact.available
       THEN Crash /\ UNCHANGED <<model, bindings>>
       ELSE /\ model' = Densenet121(artifact)
            /\ bindings' = [bindings EXCEPT !.model = @ + 1]
            /\ pc' = "L259"
    /\ UNCHANGED <<labelFile, artifact, imagenet_class_index, req, started>>

\* line 259: model.eval()
ModelEval ==
    /\ pc = "L259"
    /\ model' = Eval(model)
    /\ pc' = "L291"
    /\ UNCHANGED <<labelFile, artifact, imagenet_class_index, req, bindings, started>>

\* line 291: app.run(), reached only when every statement before it returned.
AppRun ==
    /\ pc = "L291"
    /\ pc' = "serving"
    /\ started' = [labels |-> imagenet_class_index, model |-> model]
    /\ UNCHANGED <<labelFile, artifact, imagenet_class_index, model, req, bindings>>

\* @app.route('/predict', methods=['POST']): a request arrives; the route
\* calls predict() for a POST and refuses any other method.
Receive(r, method, hasFile, upload) ==
    /\ pc = "serving"
    /\ req[r].pc = "idle"
    /\ IF r = 1 THEN TRUE ELSE req[r - 1].pc # "idle"
    /\ req' = [req EXCEPT ![r] =
            IF method = "POST"
            THEN [@ EXCEPT !.method = method, !.hasFile = hasFile,
                           !.upload = IF hasFile THEN upload ELSE NoBytes, !.pc = "L284"]
            ELSE [@ EXCEPT !.method = method, !.pc = "done", !.raised = "MethodNotAllowed"]]
    /\ UNCHANGED <<pc, labelFile, artifact, imagenet_class_index, model, bindings, started>>

\* Faulty variant: a request without the field is read as empty bytes.
RequestFilesGet(q) == [raised |-> "", bytes |-> q.upload]

\* request.files['file'].read(): the bytes of the upload named file; a
\* request without that field raises.
RequestFiles(q) ==
    IF q.hasFile THEN [raised |-> "", bytes |-> q.upload]
    ELSE [raised |-> "BadRequestKeyError", bytes |-> NoBytes]

\* lines 284-285: file = request.files['file']; img_bytes = file.read()
ExtractFile(r) ==
    /\ req[r].pc = "L284"
    /\ LET q == [req[r] EXCEPT !.steps = Append(@, "extract")]
           f == RequestFiles(q)
       IN  req' = [req EXCEPT ![r] =
                IF f.raised # "" THEN [q EXCEPT !.pc = "done", !.raised = f.raised]
                ELSE [q EXCEPT !.img_bytes = f.bytes, !.pc = "L274"]]
    /\ UNCHANGED <<pc, labelFile, artifact, imagenet_class_index, model, bindings, started>>

\* Faulty variant: the exception of transform_image ends the process.
TransformFatal(r) ==
    /\ req[r].pc = "L274"
    /\ LET q == [req[r] EXCEPT !.steps = Append(@, "transform")]
           t == transform_image(q.img_bytes)
       IN  IF t.raised # ""
           THEN /\ req' = [req EXCEPT ![r] = [q EXCEPT !.pc = "done", !.raised = t.raised]]
                /\ Crash
           ELSE /\ req' = [req EXCEPT ![r] = [q EXCEPT !.tensor = t.tensor, !.pc = "L275"]]
                /\ UNCHANGED pc
    /\ UNCHANGED <<labelFile, artifact, imagenet_class_index, model, bindings, started>>

\* line 274: tensor = transform_image(image_bytes=image_bytes)
Transform(r) ==
    /\ req[r].pc = "L274"
    /\ LET q == [req[r] EXCEPT !.steps = Append(@, "transform")]
           t == transform_image(q.img_bytes)
       IN  req' = [req EXCEPT ![r] =
                IF t.raised # "" THEN [q EXCEPT !.pc = "done", !.raised = t.raised]
                ELSE [q EXCEPT !.tensor = t.tensor, !.pc = "L275"]]
    /\ UNCHANGED <<pc, labelFile, artifact, imagenet_class_index, model, bindings, started>>

\* lines 275-276: outputs = model.forward(tensor); _, y_hat = outputs.max(1)
Predict(r) ==
    /\ req[r].pc = "L275"
    /\ LET q == [req[r] EXCEPT !.steps = Append(@, "predict")]
       IN  IF ~(model.loaded /\ ForwardAccepts(q.tensor))
           THEN /\ req' = [req EXCEPT ![r] = [q EXCEPT !.pc = "done", !.raised = "RuntimeError"]]
                /\ UNCHANGED model
           ELSE /\ req' = [req EXCEPT ![r] =
                        [q EXCEPT !.y_hat = ArgMax(Forward(model, q.tensor)), !.pc = "L277"]]
                /\ model' = AfterForward(model)
    /\ UNCHANGED <<pc, labelFile, artifact, imagenet_class_index, bindings, started>>

\* Faulty variant: the lookup takes the entry out of the table (dict.pop).
ResolvePop(r) ==
    /\ req[r].pc = "L277"
    /\ LET q == [req[r] EXCEPT !.steps = Append(@, "resolve"), !.predicted_idx = Str(req[r].y_hat)]
           e == Subscript(imagenet_class_index, q.predicted_idx)
       IN  IF e.raised # ""
           THEN /\ req' = [req EXCEPT ![r] = [q EXCEPT !.pc = "done", !.raised = e.raised]]
                /\ UNCHANGED imagenet_class_index
           ELSE /\ req' = [req EXCEPT ![r] = [q EXCEPT !.label = e.value, !.pc = "L286"]]
                /\ imagenet_class_index' =
                        JObject([k \in (DOMAIN imagenet_class_index.members) \ {q.predicted_idx}
                                    |-> imagenet_class_index.members[k]])
    /\ UNCHANGED <<pc, labelFile, artifact, model, bindings, started>>

\* lines 277-278: predicted_idx = str(y_hat.item()); return imagenet_class_index[predicted_idx]
Resolve(r) ==
    /\ req[r].pc = "L277"
    /\ LET q == [req[r] EXCEPT !.steps = Append(@, "resolve"), !.predicted_idx = Str(req[r].y_hat)]
           e == Subscript(imagenet_class_index, q.predicted_idx)
       IN  req' = [req EXCEPT ![r] =
                IF e.raised # "" THEN [q EXCEPT !.pc = "done", !.raised = e.raised]
                ELSE [q EXCEPT !.label = e.value, !.pc = "L286"]]
    /\ UNCHANGED <<pc, labelFile, artifact, imagenet_class_index, model, bindings, started>>

\* lines 286-287: class_id, class_name = <the label>; return jsonify({...})
Respond(r) ==
    /\ req[r].pc = "L286"
    /\ LET u == Unpack2(req[r].label)
       IN  req' = [req EXCEPT ![r] =
                IF u.raised # "" THEN [@ EXCEPT !.pc = "done", !.raised = u.raised]
                ELSE [@ EXCEPT !.response = Jsonify(u.class_id, u.class_name), !.pc = "done"]]
    /\ UNCHANGED <<pc, labelFile, artifact, imagenet_class_index, model, bindings, started>>

Next ==
    \/ LoadLabels
    \/ LoadModel
    \/ ModelEval
    \/ AppRun
    \/ \E r \in RequestIds, method \in {"POST", "GET"}, hasFile \in BOOLEAN, upload \in Uploads :
            Receive(r, method, hasFile, upload)
    \/ \E r \in RequestIds : ExtractFile(r)
    \/ \E r \in RequestIds : Transform(r)
    \/ \E r \in RequestIds : Predict(r)
    \/ \E r \in RequestIds : Resolve(r)
    \/ \E r \in RequestIds : Respond(r)

Spec == Init /\ [][Next]_vars

\* ------------------------------------------------------------ properties
Done(r) == req[r].pc = "done"
Posted(r) == req[r].method = "POST"
\* The request's get_prediction reached its table lookup (line 278).
Looked(r) == Len(req[r].steps) = 4
TableHas(k) ==
    imagenet_class_index.t = "object" /\ k \in DOMAIN imagenet_class_index.members
Is200(r) == req[r].response.status = StatusOK
\* The body is the object {class_id: a, class_name: b} and nothing more.
BodyIs(r, a, b) ==
    /\ DOMAIN req[r].response.body = {"class_id", "class_name"}
    /\ req[r].response.body["class_id"] = a
    /\ req[r].response.body["class_name"] = b

\* C1 as stated: a finished POST request whose file decodes to an image and
\* whose predicted index has an entry in the label table was answered with
\* status 200 and the body {class_id: entry[0], class_name: entry[1]}.
C1_AsStated ==
    \A r \in RequestIds :
        (Done(r) /\ Posted(r) /\ req[r].hasFile /\ req[r].upload.decodes
         /\ Looked(r) /\ TableHas(req[r].predicted_idx))
        => LET e == imagenet_class_index.members[req[r].predicted_idx]
           IN  /\ Is200(r)
               /\ Len(e.items) >= 2
               /\ BodyIs(r, e.items[1], e.items[2])

\* C1 amended: the same, for the label tables whose entry at the predicted
\* index is a two-element array.
C1_Response200 ==
    \A r \in RequestIds :
        (Done(r) /\ Posted(r) /\ req[r].hasFile /\ req[r].upload.decodes
         /\ Looked(r) /\ TableHas(req[r].predicted_idx)
         /\ imagenet_class_index.members[req[r].predicted_idx].t = "array"
         /\ Len(imagenet_class_index.members[req[r].predicted_idx].items) = 2)
        => LET e == imagenet_class_index.members[req[r].predicted_idx]
           IN  /\ Is200(r)
               /\ req[r].raised = ""
               /\ BodyIs(r, e.items[1], e.items[2])

C1_Witness ==
    \E r \in RequestIds :
        /\ Done(r) /\ Is200(r) /\ req[r].upload.decodes
        /\ req[r].predicted_idx = "2"
        /\ req[r].label = JArr(<<JStr("n2"), JStr("name2")>>)

\* C2: a lookup returns exactly the entry stored at key str(index); for an
\* index whose str() is no key of the table it fails with KeyError, returning
\* neither another key's entry nor a default.
C2_ResolveExact ==
    \A r \in RequestIds :
        (Looked(r) /\ imagenet_class_index.t = "object")
        => /\ req[r].predicted_idx = Digit(req[r].y_hat)
           /\ IF req[r].predicted_idx \in DOMAIN imagenet_class_index.members
              THEN /\ req[r].label = imagenet_class_index.members[req[r].predicted_idx]
                   /\ req[r].raised # "KeyError"
              ELSE /\ Done(r)
                   /\ req[r].raised = "KeyError"
                   /\ req[r].label = JNull
                   /\ req[r].response = NoResponse

C2_Witness ==
    \E r1, r2 \in RequestIds :
        /\ "01" \in DOMAIN imagenet_class_index.members
        /\ req[r1].raised = "KeyError" /\ req[r1].predicted_idx = "1"
        /\ req[r2].pc = "L286" /\ req[r2].predicted_idx = "0"

\* C3: a POST without a file field ends in the exception of the field's
\* lookup: it gets no 200 response, and transform, predict and resolve do not
\* run for it.
C3_NoFileFaults ==
    \A r \in RequestIds :
        (Posted(r) /\ ~req[r].hasFile)
        => /\ req[r].response = NoResponse
           /\ req[r].pc \in {"L284", "done"}
           /\ req[r].steps = IF Done(r) THEN <<"extract">> ELSE <<>>
           /\ Done(r) => req[r].raised = "BadRequestKeyError"
           /\ req[r].tensor = NoTensor
           /\ req[r].predicted_idx = ""
           /\ req[r].label = JNull

C3_Witness ==
    \E r \in RequestIds :
        Posted(r) /\ ~req[r].hasFile /\ Done(r) /\ req[r].raised = "BadRequestKeyError"

\* What lines 273-287 make of an upload when the two globals are as they were
\* at app.run(): the exception raised, or the response returned.
Outcome(raised, response) == [raised |-> raised, response |-> response]

AtStart(upload) ==
    LET t == transform_image(upload)
        e == Subscript(started.labels, Str(ArgMax(Forward(started.model, t.tensor))))
        u == Unpack2(e.value)
    IN  IF t.raised # "" THEN Outcome(t.raised, NoResponse)
        ELSE IF e.raised # "" THEN Outcome(e.raised, NoResponse)
        ELSE IF u.raised # "" THEN Outcome(u.raised, NoResponse)
        ELSE Outcome("", Jsonify(u.class_id, u.class_name))

GlobalsAsStarted == imagenet_class_index = started.labels /\ model = started.model

\* A finished POST whose file field held bytes that are no image.
DecodeFailed(r) ==
    Done(r) /\ Posted(r) /\ req[r].hasFile /\ ~req[r].upload.decodes

C5_StepsInOrder ==
    \A r \in RequestIds :
        /\ Len(req[r].steps) <= Len(HandlerSteps)
        /\ req[r].steps = SubSeq(HandlerSteps, 1, Len(req[r].steps))
        /\ req[r].pc = "L284" => req[r].steps = <<>>
        /\ req[r].pc = "L274" => Len(req[r].steps) = 1
        /\ req[r].pc = "L275" => Len(req[r].steps) = 2
        /\ req[r].pc = "L277" => Len(req[r].steps) = 3
        /\ req[r].pc = "L286" => Len(req[r].steps) = 4
        /\ req[r].raised # "" => Done(r) /\ req[r].response = NoResponse
        /\ ~Done(r) => req[r].response = NoResponse
        /\ Is200(r)
           => /\ req[r].steps = HandlerSteps
              /\ req[r].raised = ""
              /\ req[r].hasFile /\ req[r].img_bytes = req[r].upload
              /\ req[r].upload.decodes /\ req[r].tensor # NoTensor
              /\ TableHas(req[r].predicted_idx)
        /\ (Done(r) /\ Posted(r) /\ ~Is200(r)) => req[r].raised # ""

\* A request that has raised is never touched again.
C5_NoStepAfterFailure ==
    [][\A r \in RequestIds : req[r].raised # "" => req'[r] = req[r]]_vars

\* C5: the handler runs extract, transform, predict, resolve in this order;
\* an exception ends the request at the step that raised it, uncaught and with
\* no response; a 200 is returned only after all four steps succeeded; and no
\* step of a request runs after one of its steps has raised.
C5_ShortCircuit == []C5_StepsInOrder /\ C5_NoStepAfterFailure

C5_Witness ==
    \E r1, r2 \in RequestIds :
        /\ req[r1].raised = "RuntimeError" /\ req[r1].steps = <<"extract", "transform">>
        /\ Is200(r2)

\* C6: two finished requests with the same file field and bytes have the same
\* outcome, whatever was served before or between them.
C6_SameBytesSameResponse ==
    \A r1, r2 \in RequestIds :
        (Done(r1) /\ Done(r2) /\ Posted(r1) /\ Posted(r2)
         /\ req[r1].hasFile = req[r2].hasFile /\ req[r1].upload = req[r2].upload)
        => /\ req[r1].response = req[r2].response
           /\ req[r1].raised = req[r2].raised

C6_Witness ==
    /\ Done(1) /\ Done(2) /\ Is200(1) /\ Is200(2)
    /\ req[1].upload = req[2].upload

\* Each global is assigned at most once, and once the process serves exactly
\* once; both are then as they were at app.run(), the model in eval mode.
C7_LoadedOnce ==
    /\ bindings.labels <= 1 /\ bindings.model <= 1
    /\ (\E r \in RequestIds : req[r].pc # "idle") => pc = "serving"
    /\ pc = "serving"
       => /\ bindings = [labels |-> 1, model |-> 1]
          /\ GlobalsAsStarted
          /\ model.loaded /\ ~model.training /\ model.num_batches_tracked = 0
          /\ imagenet_class_index = labelFile.doc
          /\ model.weights = artifact.weights

\* While the process serves, a step changes neither global, and the record
\* of one request at most.
C7_RequestsWriteOwnData ==
    [][pc = "serving"
       => /\ imagenet_class_index' = imagenet_class_index
          /\ model' = model
          /\ bindings' = bindings
          /\ pc' = pc
          /\ \A r1, r2 \in RequestIds :
                (req'[r1] # req[r1] /\ req'[r2] # req[r2]) => r1 = r2]_vars

\* C7: each global is assigned once, before the first request is received;
\* in every state after start-up, however the requests interleave, both are as
\* they were at initialization; and a step of a request writes that request's
\* own data only.
C7_GlobalsReadOnly == []C7_LoadedOnce /\ C7_RequestsWriteOwnData

C7_Witness ==
    /\ pc = "serving"
    /\ req[1].pc = "L277" /\ req[2].pc = "L277"

\* C8: when the label file is missing or is not JSON, or the pretrained
\* weights cannot be fetched, the process never serves and no request is
\* received; a request is only ever handled with both globals loaded.
StartupFails == ~labelFile.exists \/ ~labelFile.wellformed \/ ~artifact.available

WellFormedEntry(e) ==
    e.t = "array" /\ Len(e.items) = 2 /\ \A i \in 1..2 : e.items[i].t = "string"

\* C9 as stated: once the label table is loaded, every entry of it is a
\* two-element array of strings.
C9_AsStated ==
    imagenet_class_index.t = "object"
    => \A k \in DOMAIN imagenet_class_index.members :
            WellFormedEntry(imagenet_class_index.members[k])

\* C9 amended: the load fails, ending start-up, exactly when the file is
\* missing or is not JSON; what it returns is bound unvalidated; and a request
\* is answered 200 only when its entry unpacks into exactly two values, an
\* entry that does not ending the request in TypeError or ValueError.
C9_LoadUnvalidated ==
    /\ (~labelFile.exists \/ ~labelFile.wellformed)
       => imagenet_class_index = Unbound /\ pc \in {"L257", "crashed"}
    /\ (labelFile.exists /\ labelFile.wellformed /\ pc # "L257")
       => imagenet_class_index = labelFile.doc
    /\ \A r \in RequestIds :
          (Done(r) /\ Looked(r) /\ TableHas(req[r].predicted_idx))
          => LET e == imagenet_class_index.members[req[r].predicted_idx]
                 n == IF e.t = "array" THEN Len(e.items)
                      ELSE IF e.t = "string" THEN Len(e.s) ELSE 0 - 1
             IN  IF n = 2 THEN Is200(r)
                 ELSE /\ req[r].response = NoResponse
                      /\ req[r].raised = IF n < 0 THEN "TypeError" ELSE "ValueError"

C9_Witness ==
    \E r \in RequestIds :
        /\ req[r].raised = "ValueError"
        /\ req[r].label = JArr(<<JStr("n0"), JStr("cat"), JStr("extra")>>)

\* C10: transform_image returns a tensor of shape (1, 3, 224, 224) or raises:
\* a request past line 274 holds a tensor of exactly that shape, and one that
\* raised there holds none.
C10_TensorShape ==
    \A r \in RequestIds :
        /\ req[r].tensor # NoTensor => req[r].tensor.shape = <<1, 3, CropSize, CropSize>>
        /\ Len(req[r].steps) >= 2
           => \/ req[r].tensor.shape = <<1, 3, CropSize, CropSize>> /\ Len(req[r].upload.mode) = 3
              \/ /\ req[r].tensor = NoTensor /\ Len(req[r].steps) = 2
                 /\ req[r].raised \in {"UnidentifiedImageError", "RuntimeError"}

C10_Witness ==
    \E r1, r2 \in RequestIds :
        /\ req[r1].upload = ImageBytes("RGB", 1, 300, 0)
        /\ req[r1].tensor.shape = <<1, 3, CropSize, CropSize>>
        /\ req[r2].upload = ImageBytes("L", 100, 50, 0)
        /\ req[r2].raised = "RuntimeError"

=============================================================================
